---- MODULE Spec2Model ----
(***************************************************************************)
(* The special-character highlighter of codemirror.next: the class         *)
(* SpecialCharHighlighter (update, closeHoles, updateForViewport,          *)
(* getDecorationsFor) together with the collaborators it calls: the        *)
(* document (lineAt, iterRange, countColumn), the change set (mapPos,      *)
(* changedRanges) and the decoration set (set, map, update).               *)
(*                                                                         *)
(* Positions are 0-based offsets; the character at position p of a         *)
(* document d is d[p + 1].  Characters are code points.                    *)
(***************************************************************************)
EXTENDS Integers, Sequences, FiniteSets, TLC

VARIABLES
  doc,          \* view.state.doc, a sequence of code points
  viewport,     \* view.viewport, [from |-> , to |-> ]
  replaceTabs,  \* SpecialCharHighlighter.replaceTabs
  decorations,  \* SpecialCharHighlighter.decorations, entries ordered by from
  from,         \* SpecialCharHighlighter.from
  to,           \* SpecialCharHighlighter.to
  phase,        \* "created" after the constructor, "updated" after update(), "idle" once read
  changes,      \* the edit description handed to the last update()
  calls,        \* the getDecorationsFor calls of the last operation, in order
  before,       \* doc, viewport, decorations, from, to when the last operation began
  overlapping   \* the last operation handed DecorationSet.update an overlapping entry

vars == <<doc, viewport, replaceTabs, decorations, from, to, phase, changes, calls,
          before, overlapping>>

----------------------------------------------------------------------------
(* Bounds of the model *)

MaxDocLen == 3

GapDocLen == 56

(* Code points *)
BEL == 7
TAB == 9
NL == 10
LetterA == 97

Chars == {LetterA, BEL, TAB, NL}

JOIN_GAP == 10

TabSize == 4

DefaultCharacterWidth == 7

Max(a, b) == IF a >= b THEN a ELSE b

Min(a, b) == IF a <= b THEN a ELSE b

----------------------------------------------------------------------------
(* The pattern *)

SPECIALS ==
  (0 .. 8) \cup (10 .. 31) \cup (127 .. 159) \cup {173, 1564} \cup (8203 .. 8207)
    \cup {8232, 8233, 65279} \cup (65529 .. 65532)

\* this.specials: the pattern, widened by the tab when tabs are replaced
Specials(tabs) == IF tabs THEN {TAB} \cup SPECIALS ELSE SPECIALS

----------------------------------------------------------------------------
(* The document *)

\* doc.slice(a, b)
Slice(d, a, b) == SubSeq(d, a + 1, b)

\* doc.lineAt(pos).start
LineStart(d, pos) ==
  LET brk == {i \in 1 .. Min(pos, Len(d)) : d[i] = NL}
  IN  IF brk = {} THEN 0 ELSE CHOOSE i \in brk : \A j \in brk : j <= i

\* doc.lineAt(pos).end
LineEnd(d, pos) ==
  LET brk == {i \in (pos + 1) .. Len(d) : d[i] = NL}
  IN  IF brk = {} THEN Len(d) ELSE (CHOOSE i \in brk : \A j \in brk : i <= j) - 1

\* countColumn(string, n, tabSize)
RECURSIVE countColumn(_, _, _)
countColumn(string, n, tabSize) ==
  IF string = <<>> THEN n
  ELSE countColumn(Tail(string),
                   IF Head(string) = TAB THEN n + tabSize - (n % tabSize) ELSE n + 1,
                   tabSize)

\* doc.iterRange(a, b): the chunks the cursor yields, a line break being a chunk
\* of its own, flagged lineBreak, between the pieces of line text
RECURSIVE IterRange(_, _, _)
IterRange(d, a, b) ==
  IF a >= b THEN <<>>
  ELSE IF d[a + 1] = NL
       THEN <<[value |-> <<NL>>, lineBreak |-> TRUE]>> \o IterRange(d, a + 1, b)
       ELSE LET e == Min(b, LineEnd(d, a))
            IN  <<[value |-> Slice(d, a, e), lineBreak |-> FALSE]>> \o IterRange(d, e, b)

----------------------------------------------------------------------------
(* The classifier *)

\* the column of a tab counted from the start of the document instead of the
\* start of its line
WidgetFromDocStart(d, at) ==
  LET code == d[at + 1]
  IN  IF code = TAB
      THEN LET col == countColumn(Slice(d, 0, at), 0, TabSize)
           IN  [kind |-> "tab", value |-> (TabSize - (col % TabSize)) * DefaultCharacterWidth]
      ELSE [kind |-> "special", value |-> code]

\* new TabWidget(...), new SpecialCharWidget(options, code)
Widget(d, at) ==
  LET code == d[at + 1]
  IN  IF code = TAB
      THEN LET col == countColumn(Slice(d, LineStart(d, at), at), 0, TabSize)
           IN  [kind |-> "tab", value |-> (TabSize - (col % TabSize)) * DefaultCharacterWidth]
      ELSE [kind |-> "special", value |-> code]

\* the decoration pushed for the match at pos + index
Match(d, pos, index) ==
  [from |-> pos + index, to |-> pos + index + 1, widget |-> Widget(d, pos + index)]

\* the indexes of value, from index on, at which the pattern matches
Hits(tabs, value, index) ==
  {i \in index .. (Len(value) - 1) : value[i + 1] \in Specials(tabs)}

\* the pattern without its global flag: only the first match of a chunk
ExecFirst(d, tabs, value, pos, index) ==
  LET hits == Hits(tabs, value, index)
  IN  IF hits = {} THEN <<>>
      ELSE <<Match(d, pos, CHOOSE i \in hits : \A j \in hits : i <= j)>>

\* the while loop over this.specials.exec(cursor.value) for one chunk at pos:
\* the matches in ascending order
ExecAll(d, tabs, value, pos, index) ==
  LET hits == Hits(tabs, value, index)
  IN  [k \in 1 .. Cardinality(hits) |->
         Match(d, pos, CHOOSE i \in hits : Cardinality({j \in hits : j < i}) = k - 1)]

\* the chunks scanned without regard to their lineBreak flag
RECURSIVE ScanEveryChunk(_, _, _, _)
ScanEveryChunk(d, tabs, chunks, pos) ==
  IF chunks = <<>> THEN <<>>
  ELSE LET c == Head(chunks)
       IN  ExecAll(d, tabs, c.value, pos, 0)
           \o ScanEveryChunk(d, tabs, Tail(chunks), pos + Len(c.value))

RECURSIVE ScanChunks(_, _, _, _)
ScanChunks(d, tabs, chunks, pos) ==
  IF chunks = <<>> THEN <<>>
  ELSE LET c == Head(chunks)
       IN  (IF ~c.lineBreak THEN ExecAll(d, tabs, c.value, pos, 0) ELSE <<>>)
           \o ScanChunks(d, tabs, Tail(chunks), pos + Len(c.value))

\* getDecorationsFor(from, to, target): the entries pushed onto target
getDecorationsFor(d, tabs, a, b) == ScanChunks(d, tabs, IterRange(d, a, b), a)

----------------------------------------------------------------------------
(* The change set.  An edit description is a sequence of changes in ascending
   document order, each replacing the span [fromA, toA) of the old document
   by the text insert; consecutive changes neither overlap nor touch. *)

\* the length delta of one change
Delta(c) == Len(c.insert) - (c.toA - c.fromA)

\* changes.changedRanges()
RECURSIVE ChangedRangesFrom(_, _)
ChangedRangesFrom(ch, off) ==
  IF ch = <<>> THEN <<>>
  ELSE LET c == Head(ch)
       IN  <<[fromA |-> c.fromA, toA |-> c.toA,
              fromB |-> c.fromA + off, toB |-> c.fromA + off + Len(c.insert)]>>
           \o ChangedRangesFrom(Tail(ch), off + Delta(c))

changedRanges(ch) == ChangedRangesFrom(ch, 0)

\* changes.mapPos(pos, bias)
RECURSIVE MapPosFrom(_, _, _, _)
MapPosFrom(ch, pos, bias, off) ==
  IF ch = <<>> THEN pos + off
  ELSE LET c == Head(ch)
       IN  IF pos < c.fromA THEN pos + off
           ELSE IF pos > c.toA THEN MapPosFrom(Tail(ch), pos, bias, off + Delta(c))
           ELSE IF pos = c.fromA \/ pos = c.toA
                THEN IF (IF c.fromA = c.toA THEN bias <= 0 ELSE pos = c.fromA)
                     THEN c.fromA + off
                     ELSE c.fromA + off + Len(c.insert)
                ELSE c.fromA + off + (IF bias <= 0 THEN 0 ELSE Len(c.insert))

mapPos(ch, pos, bias) == MapPosFrom(ch, pos, bias, 0)

\* the document after the changes
RECURSIVE Apply(_, _)
Apply(d, ch) ==
  IF ch = <<>> THEN d
  ELSE LET c == ch[Len(ch)]
       IN  Apply(Slice(d, 0, c.fromA) \o c.insert \o Slice(d, c.toA, Len(d)),
                 SubSeq(ch, 1, Len(ch) - 1))

----------------------------------------------------------------------------
(* The decoration set: a sequence of entries ordered by from *)

\* Decoration.set(decorations)
DecorationSet(decos) == decos

\* an entry a change deletes, wholly or in part, or inserts into
Touched(e, ch) == \E i \in 1 .. Len(ch) : ch[i].fromA < e.to /\ ch[i].toA > e.from

\* DecorationSet.map(changes)
RECURSIVE MapSet(_, _)
MapSet(set, ch) ==
  IF set = <<>> THEN <<>>
  ELSE LET e == Head(set)
           f == mapPos(ch, e.from, 1)
           t == mapPos(ch, e.to, -1)
       IN  (IF Touched(e, ch) \/ f >= t THEN <<>>
            ELSE <<[from |-> f, to |-> t, widget |-> e.widget]>>)
           \o MapSet(Tail(set), ch)

\* two sequences ordered by from, merged into one
RECURSIVE Merge(_, _)
Merge(a, b) ==
  IF a = <<>> THEN b
  ELSE IF b = <<>> THEN a
  ELSE IF Head(a).from <= Head(b).from THEN <<Head(a)>> \o Merge(Tail(a), b)
  ELSE <<Head(b)>> \o Merge(a, Tail(b))

\* the ranges of the entries of a set
RangesOf(set) == {<<set[i].from, set[i].to>> : i \in 1 .. Len(set)}

\* the entries of set that DecorationSet.update(.., filter, filterFrom, filterTo)
\* keeps, accepted being the ranges for which filter returns true
Filtered(set, accepted, filterFrom, filterTo) ==
  SelectSeq(set, LAMBDA e : ~(e.to >= filterFrom /\ e.from <= filterTo)
                            \/ <<e.from, e.to>> \in accepted)

\* DecorationSet.update(decorations, filter, filterFrom, filterTo)
DecorationSetUpdate(set, decos, accepted, filterFrom, filterTo) ==
  Merge(Filtered(set, accepted, filterFrom, filterTo), decos)

\* some entry of a overlaps some entry of b
Overlap(a, b) ==
  \E i \in 1 .. Len(a) : \E j \in 1 .. Len(b) : a[i].from < b[j].to /\ b[j].from < a[i].to

\* two entries of a overlap
SelfOverlap(a) ==
  \E i \in 1 .. Len(a) : \E j \in (i + 1) .. Len(a) :
    a[i].from < a[j].to /\ a[j].from < a[i].to

----------------------------------------------------------------------------
(* SpecialCharHighlighter *)

\* a getDecorationsFor call, as recorded in calls
Call(by, a, b) == [by |-> by, from |-> a, to |-> b]

\* the decorations getDecorationsFor collects over a sequence of spans
RECURSIVE Collect(_, _, _)
Collect(d, tabs, spans) ==
  IF spans = <<>> THEN <<>>
  ELSE getDecorationsFor(d, tabs, Head(spans).from, Head(spans).to)
       \o Collect(d, tabs, Tail(spans))

\* closeHoles: to, moved to the end of its line when tabs are replaced
LineEndIfTabs(d, tabs, toB) == IF tabs THEN LineEnd(d, toB) ELSE toB

\* the joining loop with the threshold itself counted as near
RECURSIVE JoinInclusive(_, _, _)
JoinInclusive(ranges, i, t) ==
  IF i < Len(ranges) /\ ranges[i + 1].fromB <= t + JOIN_GAP
  THEN JoinInclusive(ranges, i + 1, Max(t, ranges[i + 1].toB))
  ELSE [i |-> i, to |-> t]

\* closeHoles: the while loop that joins the ranges after ranges[i] that start
\* less than JOIN_GAP after to
RECURSIVE Join(_, _, _)
Join(ranges, i, t) ==
  IF i < Len(ranges) /\ ranges[i + 1].fromB < t + JOIN_GAP
  THEN Join(ranges, i + 1, Max(t, ranges[i + 1].toB))
  ELSE [i |-> i, to |-> t]

\* the for loop without the clipping to the viewport
RECURSIVE ReplacedUnclipped(_, _, _, _, _)
ReplacedUnclipped(d, tabs, vp, ranges, i) ==
  IF i > Len(ranges) THEN <<>>
  ELSE LET j == Join(ranges, i, LineEndIfTabs(d, tabs, ranges[i].toB))
       IN  (IF ranges[i].fromB >= j.to THEN <<>>
            ELSE <<[from |-> ranges[i].fromB, to |-> j.to]>>)
           \o ReplacedUnclipped(d, tabs, vp, ranges, j.i + 1)

\* closeHoles: the for loop from ranges[i] on; the spans pushed onto replaced
RECURSIVE Replaced(_, _, _, _, _)
Replaced(d, tabs, vp, ranges, i) ==
  IF i > Len(ranges) THEN <<>>
  ELSE LET j == Join(ranges, i, LineEndIfTabs(d, tabs, ranges[i].toB))
           f == Max(vp.from, ranges[i].fromB)
           t == Min(vp.to, j.to)
       IN  (IF f >= t THEN <<>> ELSE <<[from |-> f, to |-> t]>>)
           \o Replaced(d, tabs, vp, ranges, j.i + 1)

\* a filter that keeps every entry, the replaced ones too
HoleFilterKeep(replaced, pos) == TRUE

\* closeHoles: the filter handed to decorations.update
HoleFilter(replaced, pos) ==
  ~ \E i \in 1 .. Len(replaced) : pos >= replaced[i].from /\ pos < replaced[i].to

\* closeHoles(ranges)
closeHoles(d, tabs, vp, set, ranges) ==
  LET replaced == Replaced(d, tabs, vp, ranges, 1)
      decos == Collect(d, tabs, replaced)
      first == replaced[1].from
      last == replaced[Len(replaced)].to
      accepted == {r \in RangesOf(set) : HoleFilter(replaced, r[1])}
  IN  [decorations |->
         IF decos # <<>>
         THEN DecorationSetUpdate(set, decos, accepted, first, last)
         ELSE set,
       calls |-> [i \in 1 .. Len(replaced) |->
                    Call("closeHoles", replaced[i].from, replaced[i].to)],
       overlapping |->
         decos # <<>>
         /\ Overlap(Filtered(set, accepted, first, last), decos)]

\* a filter that keeps every entry
ViewportFilterAll(vp, a, b) == TRUE

\* updateForViewport: the filter handed to decorations.update
ViewportFilter(vp, a, b) == a >= vp.from /\ b <= vp.to

\* the whole window, scanned again whatever was covered
ExposedWhole(vp, f, t) == <<[from |-> vp.from, to |-> vp.to]>>

\* updateForViewport: the spans handed to getDecorationsFor when the viewport
\* overlaps the covered range [f, t)
Exposed(vp, f, t) ==
  (IF vp.from < f THEN <<[from |-> vp.from, to |-> f]>> ELSE <<>>)
  \o (IF t < vp.to THEN <<[from |-> t, to |-> vp.to]>> ELSE <<>>)

\* the new decorations added to the set instead of replacing it
ReclassifiedKeeping(d, tabs, vp, set) ==
  Merge(set, getDecorationsFor(d, tabs, vp.from, vp.to))

\* updateForViewport: the set when the viewport does not overlap the covered
\* range
Reclassified(d, tabs, vp, set) ==
  DecorationSet(getDecorationsFor(d, tabs, vp.from, vp.to))

\* the covered range only ever grown, never cut back to the window
CoveredGrown(vp, f, t) == [from |-> Min(vp.from, f), to |-> Max(vp.to, t)]

\* the covered range left as it was
CoveredStale(vp, f, t) == [from |-> f, to |-> t]

\* updateForViewport: the covered range it stores at its end
Covered(vp, f, t) == [from |-> vp.from, to |-> vp.to]

\* updateForViewport(), this.from and this.to being f and t
updateForViewport(d, tabs, vp, set, f, t) ==
  IF f = vp.from /\ t = vp.to
  THEN [decorations |-> set, from |-> f, to |-> t, calls |-> <<>>, overlapping |-> FALSE]
  ELSE IF f >= vp.to \/ t <= vp.from
  THEN [decorations |-> Reclassified(d, tabs, vp, set),
        from |-> Covered(vp, f, t).from, to |-> Covered(vp, f, t).to,
        calls |-> <<Call("updateForViewport", vp.from, vp.to)>>,
        overlapping |-> FALSE]
  ELSE LET spans == Exposed(vp, f, t)
           decos == Collect(d, tabs, spans)
           accepted == {r \in RangesOf(set) : ViewportFilter(vp, r[1], r[2])}
       IN  [decorations |->
              DecorationSetUpdate(set, decos, accepted, 0, 1000000000),
            from |-> Covered(vp, f, t).from, to |-> Covered(vp, f, t).to,
            calls |-> [i \in 1 .. Len(spans) |->
                         Call("updateForViewport", spans[i].from, spans[i].to)],
            overlapping |->
              Overlap(Filtered(set, accepted, 0, 1000000000), decos)
              \/ SelfOverlap(decos)]

\* the set left at its old positions
NotRemapped(set, ch) == set

\* update: this.decorations.map(update.changes)
Remapped(set, ch) == MapSet(set, ch)

\* update(update): update.changes being ch, the document and viewport d and vp
update(d, tabs, vp, set, f, t, ch) ==
  LET h == IF Len(ch) # 0
           THEN closeHoles(d, tabs, vp, Remapped(set, ch), changedRanges(ch))
           ELSE [decorations |-> set, calls |-> <<>>, overlapping |-> FALSE]
      f1 == IF Len(ch) # 0 THEN mapPos(ch, f, 1) ELSE f
      t1 == IF Len(ch) # 0 THEN mapPos(ch, t, -1) ELSE t
      u == updateForViewport(d, tabs, vp, h.decorations, f1, t1)
  IN  [decorations |-> u.decorations, from |-> u.from, to |-> u.to,
       calls |-> h.calls \o u.calls,
       overlapping |-> h.overlapping \/ u.overlapping]

----------------------------------------------------------------------------
(* The inputs *)

\* the documents of at most n characters
DocsUpTo(n) == UNION {[1 .. k -> Chars] : k \in 0 .. n}

\* the windows of a document
Windows(d) == {w \in [from : 0 .. Len(d), to : 0 .. Len(d)] : w.from <= w.to}

\* one change of a document: a character typed, a span deleted, or a
\* character replaced by a typed one
ChangesOf(d) ==
  {c \in [fromA : 0 .. Len(d), toA : 0 .. Len(d),
          insert : {<<>>} \cup {<<x>> : x \in Chars}] :
     /\ c.fromA <= c.toA
     /\ c.toA - c.fromA + Len(c.insert) > 0
     /\ c.insert = <<>> \/ c.toA <= c.fromA + 1
     /\ Len(d) + Delta(c) <= MaxDocLen}

\* the edit descriptions of one update: no change, or one change
Edits(d) == {<<>>} \cup {<<c>> : c \in ChangesOf(d)}

\* the viewports the view may show after an update.  Without an edit (a
\* scroll, a resize) any window; with an edit the window at the offsets it had
\* (cut to the document), the window over the text it showed and the text
\* inserted at its edges, or the whole document
NextWindows(d, vp, ch) ==
  IF ch = <<>> THEN Windows(d)
  ELSE {[from |-> Min(vp.from, Len(d)), to |-> Min(vp.to, Len(d))],
        [from |-> mapPos(ch, vp.from, -1), to |-> mapPos(ch, vp.to, 1)],
        [from |-> 0, to |-> Len(d)]}

----------------------------------------------------------------------------
(* The state machine *)

NoOperation ==
  [doc |-> <<>>, viewport |-> [from |-> 0, to |-> 0], decorations |-> <<>>,
   from |-> 0, to |-> 0]

\* new SpecialCharHighlighter(view, config, replaceTabs)
Init ==
  /\ doc \in DocsUpTo(MaxDocLen)
  /\ viewport \in Windows(doc)
  /\ replaceTabs \in BOOLEAN
  /\ LET u == updateForViewport(doc, replaceTabs, viewport, <<>>, 0, 0)
     IN  /\ decorations = u.decorations
         /\ from = u.from
         /\ to = u.to
         /\ calls = u.calls
         /\ overlapping = u.overlapping
  /\ phase = "created"
  /\ changes = <<>>
  /\ before = NoOperation

\* the view applies the edit ch, shows the viewport vp and calls update(update)
UpdateWith(ch, vp) ==
  \E d \in {Apply(doc, ch)} :
    \E u \in {update(d, replaceTabs, vp, decorations, from, to, ch)} :
      /\ doc' = d
      /\ viewport' = vp
      /\ decorations' = u.decorations
      /\ from' = u.from
      /\ to' = u.to
      /\ calls' = u.calls
      /\ overlapping' = u.overlapping
      /\ changes' = ch
      /\ before' = [doc |-> doc, viewport |-> viewport, decorations |-> decorations,
                     from |-> from, to |-> to]
      /\ phase' = "updated"
      /\ UNCHANGED replaceTabs

Update ==
  /\ phase = "idle"
  /\ \E ch \in Edits(doc) : \E vp \in NextWindows(Apply(doc, ch), viewport, ch) :
       UpdateWith(ch, vp)

\* the consumer reads the decorations; the record of the operation is dropped
Read ==
  /\ phase # "idle"
  /\ phase' = "idle"
  /\ changes' = <<>>
  /\ calls' = <<>>
  /\ before' = NoOperation
  /\ overlapping' = FALSE
  /\ UNCHANGED <<doc, viewport, replaceTabs, decorations, from, to>>

Next == Update \/ Read

Spec == Init /\ [][Next]_vars

----------------------------------------------------------------------------
(* Edits of two changes, on long documents shown whole *)

\* a document of GapDocLen letters, with line breaks at the positions brk and
\* tabs at the positions tabs
GapDoc(brk, tabs) ==
  [i \in 1 .. GapDocLen |->
     IF (i - 1) \in brk THEN NL ELSE IF (i - 1) \in tabs THEN TAB ELSE LetterA]

GapDocs == {GapDoc(brk, tabs) : brk \in SUBSET {2, 30}, tabs \in SUBSET {5, 33}}

\* the distances between the end of the first change and the start of the second
Gaps == {3, 9, 10, 11, 50}

\* a change at position p: a character typed, deleted or replaced
ChangesAt(p) ==
  {c \in [fromA : {p}, toA : {p, p + 1}, insert : {<<>>, <<LetterA>>, <<BEL>>}] :
     c.toA - c.fromA + Len(c.insert) > 0}

GapEdits ==
  UNION {{<<c1, c2>> : c2 \in ChangesAt(c1.toA + g)} :
           <<c1, g>> \in (ChangesAt(0) \cup ChangesAt(1)) \X Gaps}

InitGap ==
  /\ doc \in GapDocs
  /\ viewport = [from |-> 0, to |-> Len(doc)]
  /\ replaceTabs \in BOOLEAN
  /\ LET u == updateForViewport(doc, replaceTabs, viewport, <<>>, 0, 0)
     IN  /\ decorations = u.decorations
         /\ from = u.from
         /\ to = u.to
         /\ calls = u.calls
         /\ overlapping = u.overlapping
  /\ phase = "created"
  /\ changes = <<>>
  /\ before = NoOperation

\* update(update) with an edit of two changes, the viewport showing the whole
\* document
UpdateGap ==
  /\ phase = "idle"
  /\ doc \in GapDocs
  /\ \E ch \in GapEdits :
       UpdateWith(ch, [from |-> 0, to |-> Len(Apply(doc, ch))])

NextGap == UpdateGap \/ Read

SpecGap == InitGap /\ [][NextGap]_vars

----------------------------------------------------------------------------
(* What the claims speak of *)

\* the character at position p matches the active pattern (a line break is
\* no character of a line: the cursor hands it over as a chunk of its own)
Matches(p) == doc[p + 1] # NL /\ doc[p + 1] \in Specials(replaceTabs)

\* the positions of the current window
InWindow == {p \in 0 .. Len(doc) - 1 : viewport.from <= p /\ p < viewport.to}

\* the entries of the set that cover position p
Covering(p) == {i \in 1 .. Len(decorations) :
                  decorations[i].from <= p /\ p < decorations[i].to}

AfterUpdate == phase = "updated"

\* C1: after any update(), every position of the window whose character
\* matches the pattern is covered by exactly one entry of the set
C1_Coverage ==
  AfterUpdate => \A p \in InWindow : Matches(p) => Cardinality(Covering(p)) = 1

\* the half of the coverage property that does hold: no matching position of
\* the window is left without an entry
NeverUncovered ==
  AfterUpdate => \A p \in InWindow : Matches(p) => Cardinality(Covering(p)) >= 1

C2_ShrunkAway ==
  /\ AfterUpdate
  /\ changes = <<>>
  /\ \E i \in 1 .. Len(before.decorations) :
       before.decorations[i].from < viewport.from
       \/ before.decorations[i].to > viewport.to

\* C2: after any update(), no entry of the set lies outside the window
C2_NoneOutside ==
  AfterUpdate =>
    \A i \in 1 .. Len(decorations) :
      viewport.from <= decorations[i].from /\ decorations[i].to <= viewport.to

\* C3: the set is ordered by from, no two of its entries overlap, and no
\* update hands it an entry that overlaps one it still holds
C3_SortedDisjoint ==
  /\ \A i \in 1 .. Len(decorations) - 1 :
       decorations[i].to <= decorations[i + 1].from
  /\ ~overlapping

\* the column of position p on its line, each tab reaching the next tab stop
RECURSIVE Column(_, _)
Column(d, p) ==
  IF p = 0 \/ d[p] = NL THEN 0
  ELSE IF d[p] = TAB THEN ((Column(d, p - 1) \div TabSize) + 1) * TabSize
  ELSE Column(d, p - 1) + 1

\* the entry a from-scratch classification gives the matching position p
EntryAt(p) ==
  [from |-> p, to |-> p + 1,
   widget |-> IF doc[p + 1] = TAB
              THEN [kind |-> "tab",
                    value |-> (TabSize - (Column(doc, p) % TabSize)) * DefaultCharacterWidth]
              ELSE [kind |-> "special", value |-> doc[p + 1]]]

\* the set holds one entry for each matching position of the window, and
\* nothing else
WindowClassified ==
  /\ {decorations[i] : i \in 1 .. Len(decorations)} = {EntryAt(p) : p \in {q \in InWindow : Matches(q)}}
  /\ Len(decorations) = Cardinality({q \in InWindow : Matches(q)})

C4_BelFound ==
  /\ phase = "created"
  /\ doc = <<LetterA, BEL, LetterA>>
  /\ viewport = [from |-> 0, to |-> 3]
  /\ decorations = <<[from |-> 1, to |-> 2, widget |-> [kind |-> "special", value |-> BEL]]>>

\* C4: right after construction the set holds exactly one entry for each
\* matching character of the starting window, and the covered range is the
\* starting window
C4_Constructed ==
  phase = "created" => WindowClassified /\ from = viewport.from /\ to = viewport.to

C6_SameWindowAgain ==
  /\ AfterUpdate
  /\ changes = <<>>
  /\ viewport = before.viewport
  /\ decorations # <<>>

\* C6: an update() with an empty edit and the window of the call before it
\* leaves the set and the covered range as they were and classifies nothing
C6_Idempotent ==
  (AfterUpdate /\ changes = <<>> /\ viewport = before.viewport) =>
    /\ decorations = before.decorations
    /\ from = before.from
    /\ to = before.to
    /\ calls = <<>>

\* the new window overlaps the range covered before the update
OverlapsCovered == ~(before.from >= viewport.to \/ before.to <= viewport.from)

C7_GrewBothSides ==
  /\ AfterUpdate
  /\ changes = <<>>
  /\ before.from < before.to
  /\ Len(calls) = 2

\* C7: a window change without an edit, to a window that overlaps the range
\* covered before, classifies only [winFrom, prevFrom) and [prevTo, winTo), and
\* nothing at all when the window only shrinks
C7_OnlyExposed ==
  (AfterUpdate /\ changes = <<>> /\ OverlapsCovered) =>
    /\ \A i \in 1 .. Len(calls) :
         \/ /\ viewport.from < before.from
            /\ calls[i].from = viewport.from
            /\ calls[i].to = before.from
         \/ /\ before.to < viewport.to
            /\ calls[i].from = before.to
            /\ calls[i].to = viewport.to
    /\ (before.from <= viewport.from /\ viewport.to <= before.to) => calls = <<>>

\* the range covered when updateForViewport runs: the range covered before,
\* carried through the edit
CoveredFrom == IF changes = <<>> THEN before.from ELSE mapPos(changes, before.from, 1)

CoveredTo == IF changes = <<>> THEN before.to ELSE mapPos(changes, before.to, -1)

C10_Replaced ==
  /\ AfterUpdate
  /\ CoveredFrom >= viewport.to
  /\ before.decorations # <<>>
  /\ decorations # <<>>
  /\ viewport.from < viewport.to

\* C10: when the new window does not overlap the covered range, the set
\* becomes exactly the classification of the new window
C10_Disjoint ==
  (AfterUpdate /\ (CoveredFrom >= viewport.to \/ CoveredTo <= viewport.from)) =>
    WindowClassified

\* the changes of the edit all end before position p, without touching it
EditBefore(p) == \A i \in 1 .. Len(changes) : changes[i].toA < p

\* the length delta of the edit
RECURSIVE TotalDelta(_)
TotalDelta(ch) == IF ch = <<>> THEN 0 ELSE Delta(Head(ch)) + TotalDelta(Tail(ch))

\* the set holds an entry of the kind of e (and of its code point, for a
\* special character) at the range of e moved by n
HoldsShifted(e, n) ==
  \E i \in 1 .. Len(decorations) :
    /\ decorations[i].from = e.from + n
    /\ decorations[i].to = e.to + n
    /\ decorations[i].widget.kind = e.widget.kind
    /\ e.widget.kind = "special" => decorations[i].widget.value = e.widget.value

\* every entry of the set at the range [a, b) sits on a matching character
MatchingAt(a, b) ==
  \A i \in 1 .. Len(decorations) :
    (decorations[i].from = a /\ decorations[i].to = b) => Matches(a)

C9_TabMoved ==
  /\ AfterUpdate
  /\ changes = <<[fromA |-> 0, toA |-> 0, insert |-> <<LetterA>>]>>
  /\ before.doc = <<LetterA, TAB>>
  /\ before.decorations # <<>>
  /\ before.decorations[1].from = 1
  /\ \E i \in 1 .. Len(decorations) : decorations[i].from = 2 /\ decorations[i].to = 3
  /\ ~ \E i \in 1 .. Len(decorations) : decorations[i].from = 1

\* C9 as stated: an entry that an edit lies entirely before is still in the
\* set after update(), moved by the length delta of the edit, and nothing is
\* left at its old range unless a matching character is there now
C9_AsStated ==
  (AfterUpdate /\ changes # <<>>) =>
    \A k \in 1 .. Len(before.decorations) :
      LET e == before.decorations[k]
      IN  EditBefore(e.from) =>
            /\ HoldsShifted(e, TotalDelta(changes))
            /\ TotalDelta(changes) # 0 => MatchingAt(e.from, e.to)

\* C9, amended: the same for an entry whose moved range lies inside the new
\* window
C9_Remapped ==
  (AfterUpdate /\ changes # <<>>) =>
    \A k \in 1 .. Len(before.decorations) :
      LET e == before.decorations[k]
          n == TotalDelta(changes)
      IN  EditBefore(e.from) =>
            /\ (viewport.from <= e.from + n /\ e.to + n <= viewport.to)
                 => HoldsShifted(e, n)
            /\ n # 0 => MatchingAt(e.from, e.to)

\* the end of the line of position p: the first line break at or after p, or
\* the end of the document
EndOfLine(p) ==
  CHOOSE q \in p .. Len(doc) :
    /\ q = Len(doc) \/ doc[q + 1] = NL
    /\ \A k \in p .. (q - 1) : doc[k + 1] # NL

\* the changed ranges of the last edit, in the new document
Ranges == changedRanges(changes)

\* the calls closeHoles made
HoleCalls == SelectSeq(calls, LAMBDA c : c.by = "closeHoles")

\* position p lies in a span handed to getDecorationsFor
Classified(p) == \E i \in 1 .. Len(calls) : calls[i].from <= p /\ p < calls[i].to

\* C5: when tabs are replaced, every tab of the window that lies after a
\* changed range on the line of that range's end is classified in the same
\* update(), also when the range was joined to the one before it
C5_TabsRescanned ==
  (AfterUpdate /\ replaceTabs) =>
    \A k \in 1 .. Len(Ranges) : \A p \in InWindow :
      (doc[p + 1] = TAB /\ Ranges[k].toB <= p /\ p < EndOfLine(Ranges[k].toB))
        => Classified(p)

\* the end of changed range k as closeHoles takes it
EndOf(k) == IF replaceTabs THEN EndOfLine(Ranges[k].toB) ELSE Ranges[k].toB

\* the call for the span [a, b), none if the span is empty
CallFor(a, b) == IF a < b THEN <<Call("closeHoles", a, b)>> ELSE <<>>

C8_JoinedOnce ==
  /\ AfterUpdate
  /\ Len(changes) = 2
  /\ ~replaceTabs
  /\ Ranges[2].fromB = Ranges[1].toB + 3
  /\ HoleCalls = <<Call("closeHoles", Ranges[1].fromB, Ranges[2].toB)>>

\* C8 as stated: two changed ranges less than JOIN_GAP apart give exactly one
\* call, which covers both; two ranges 50 apart give two calls
C8_AsStated ==
  (AfterUpdate /\ Len(changes) = 2) =>
    /\ Ranges[2].fromB < Ranges[1].toB + JOIN_GAP =>
         /\ Len(HoleCalls) = 1
         /\ HoleCalls[1].from <= Ranges[1].fromB
         /\ HoleCalls[1].to >= Ranges[2].toB
    /\ Ranges[2].fromB = Ranges[1].toB + 50 => Len(HoleCalls) = 2

\* C8, amended: the end of a range being the end of its line when tabs are
\* replaced, a second range that starts less than JOIN_GAP after the end of
\* the first gives exactly one call, from the start of the first range over
\* both; otherwise each range whose span is not empty gets a call of its own
C8_Joined ==
  (AfterUpdate /\ Len(changes) = 2) =>
    IF Ranges[2].fromB < EndOf(1) + JOIN_GAP
    THEN /\ Len(HoleCalls) = 1
         /\ HoleCalls[1].from = Ranges[1].fromB
         /\ HoleCalls[1].to >= Max(EndOf(1), Ranges[2].toB)
         /\ ~replaceTabs => HoleCalls[1].to = Ranges[2].toB
    ELSE HoleCalls = CallFor(Ranges[1].fromB, EndOf(1)) \o CallFor(Ranges[2].fromB, EndOf(2))

C11_WindowMoved ==
  /\ AfterUpdate
  /\ changes # <<>>
  /\ CoveredFrom # viewport.from
  /\ CoveredTo # viewport.to
  /\ viewport.from < viewport.to

\* C11: after construction and after every update(), with or without an
\* edit, the stored covered range (from, to) is the current window
C11_CoveredIsWindow ==
  (phase = "created" \/ AfterUpdate) => from = viewport.from /\ to = viewport.to

\* the set closeHoles is handed: the set before the update, carried through
\* the edit
MappedBefore == Remapped(before.decorations, changes)

\* the set closeHoles leaves
AfterHoles == closeHoles(doc, replaceTabs, viewport, MappedBefore, Ranges).decorations

\* the spans closeHoles classifies, clipped to the window
ClippedSpans == Replaced(doc, replaceTabs, viewport, Ranges, 1)

\* the entries closeHoles classifies
HoleDecos == Collect(doc, replaceTabs, ClippedSpans)

\* the spans closeHoles classifies, by the bounds they have before they are
\* clipped to the window
RECURSIVE Processed(_, _, _, _, _)
Processed(d, tabs, vp, ranges, i) ==
  IF i > Len(ranges) THEN <<>>
  ELSE LET j == Join(ranges, i, LineEndIfTabs(d, tabs, ranges[i].toB))
       IN  (IF Max(vp.from, ranges[i].fromB) >= Min(vp.to, j.to) THEN <<>>
            ELSE <<[from |-> ranges[i].fromB, to |-> j.to]>>)
           \o Processed(d, tabs, vp, ranges, j.i + 1)

PreClipSpans == Processed(doc, replaceTabs, viewport, Ranges, 1)

\* the number of entries of set that start at position a
CountAt(set, a) == Cardinality({i \in 1 .. Len(set) : set[i].from = a})

\* entry e starts inside one of spans
StartsWithin(e, spans) ==
  \E n \in 1 .. Len(spans) : spans[n].from <= e.from /\ e.from < spans[n].to

\* every entry of mapped, the set handed to closeHoles, that starts inside one
\* of spans is gone from after, the set closeHoles leaves: what the set holds
\* at its start is what closeHoles has classified there, decos
RemovedWithin(mapped, after, decos, spans) ==
  \A k \in 1 .. Len(mapped) :
    StartsWithin(mapped[k], spans)
      => CountAt(after, mapped[k].from) = CountAt(decos, mapped[k].from)

\* C12: closeHoles removes every entry, carried through the edit, that starts
\* inside a span it processes, the span taken by its bounds before the
\* clipping to the window; also an entry outside the window, and also when the
\* spans hold no matching character
C12_PreClipRemoval ==
  (AfterUpdate /\ changes # <<>>) =>
    RemovedWithin(MappedBefore, AfterHoles, HoleDecos, PreClipSpans)

C12_EntryReplaced ==
  /\ AfterUpdate
  /\ changes # <<>>
  /\ \E k \in 1 .. Len(MappedBefore) : StartsWithin(MappedBefore[k], ClippedSpans)
  /\ \E k \in 1 .. Len(MappedBefore) :
       /\ StartsWithin(MappedBefore[k], PreClipSpans)
       /\ ~StartsWithin(MappedBefore[k], ClippedSpans)

\* C12, amended: closeHoles removes every entry that starts inside a span it
\* processes, the span taken by its bounds after the clipping to the window;
\* an entry that starts inside the span as it was before the clipping but
\* outside the window is left by closeHoles and is gone from the set when
\* update() returns
C12_ClippedRemoval ==
  (AfterUpdate /\ changes # <<>> /\ before.decorations # <<>>) =>
    LET mapped == MappedBefore
        after == closeHoles(doc, replaceTabs, viewport, mapped, Ranges).decorations
        clipped == ClippedSpans
        unclipped == PreClipSpans
        decos == Collect(doc, replaceTabs, clipped)
    IN  \A k \in 1 .. Len(mapped) :
          StartsWithin(mapped[k], unclipped) =>
            IF StartsWithin(mapped[k], clipped)
            THEN CountAt(after, mapped[k].from) = CountAt(decos, mapped[k].from)
            ELSE /\ mapped[k].from < viewport.from \/ mapped[k].from >= viewport.to
                 /\ CountAt(after, mapped[k].from) = CountAt(mapped, mapped[k].from)
                 /\ CountAt(decorations, mapped[k].from) = 0

\* the span of the one changed range of the edit is empty once clipped to the
\* window
ClipsToNothing ==
  /\ Len(changes) = 1
  /\ Max(viewport.from, Ranges[1].fromB) >= Min(viewport.to, EndOf(1))

\* call i lies inside the window
CallInWindow(i) == viewport.from <= calls[i].from /\ calls[i].to <= viewport.to

\* C13 as stated: every getDecorationsFor call of an update() has a range
\* that is not empty and lies inside the window, and a changed span that is
\* empty once clipped to the window gives no call of closeHoles
C13_AsStated ==
  AfterUpdate =>
    /\ \A i \in 1 .. Len(calls) : calls[i].from < calls[i].to /\ CallInWindow(i)
    /\ ClipsToNothing => HoleCalls = <<>>

C13_SkippedOutside ==
  /\ AfterUpdate
  /\ ClipsToNothing
  /\ viewport.from < viewport.to
  /\ calls # <<>>
  /\ HoleCalls = <<>>

\* C13, amended: every getDecorationsFor call of an update() lies inside the
\* window; its range is not empty unless the window itself is empty, and
\* then it is the call over the whole window that updateForViewport makes for
\* a window off the covered range; a changed span that is empty once clipped
\* to the window gives no call of closeHoles
C13_CallsInWindow ==
  AfterUpdate =>
    /\ \A i \in 1 .. Len(calls) :
         /\ CallInWindow(i)
         /\ calls[i].from <= calls[i].to
         /\ calls[i].from = calls[i].to =>
              /\ viewport.from = viewport.to
              /\ calls[i] = Call("updateForViewport", viewport.from, viewport.to)
    /\ ClipsToNothing => HoleCalls = <<>>

\* the entries call i of the last operation pushed
Pushed(i) == getDecorationsFor(doc, replaceTabs, calls[i].from, calls[i].to)

\* the width of a tab entry, in characters
WidthInChars(e) == e.widget.value \div DefaultCharacterWidth

C14_NarrowTab ==
  /\ AfterUpdate
  /\ \E i \in 1 .. Len(calls) : \E k \in 1 .. Len(Pushed(i)) :
       /\ Pushed(i)[k].widget.kind = "tab"
       /\ Column(doc, Pushed(i)[k].from) > TabSize
       /\ Pushed(i)[k].widget.value = DefaultCharacterWidth

\* C14: a tab classified at column col, the columns counted from the start
\* of the line with the tabs before it reaching their tab stops, gets the width
\* (tabSize - col % tabSize) * defaultCharWidth: at least one and at most
\* tabSize characters wide, and ending at a multiple of tabSize
C14_TabWidth ==
  \A i \in 1 .. Len(calls) : \A k \in 1 .. Len(Pushed(i)) :
    LET e == Pushed(i)[k]
        col == Column(doc, e.from)
    IN  /\ e.widget.kind = "tab" <=> doc[e.from + 1] = TAB
        /\ e.widget.kind = "tab" =>
             /\ e.widget.value = (TabSize - (col % TabSize)) * DefaultCharacterWidth
             /\ e.widget.value = WidthInChars(e) * DefaultCharacterWidth
             /\ 1 <= WidthInChars(e) /\ WidthInChars(e) <= TabSize
             /\ (col + WidthInChars(e)) % TabSize = 0

\* position p holds a line break
LineBreakAt(p) == doc[p + 1] = NL

C15_BreakScanned ==
  /\ AfterUpdate
  /\ changes # <<>>
  /\ decorations # <<>>
  /\ \E p \in InWindow : LineBreakAt(p) /\ Classified(p)
  /\ NL \in Specials(replaceTabs)

\* C15: no entry of the set covers a line break, although the pattern holds
\* the code point 10
C15_NoLineBreak ==
  \A p \in 0 .. Len(doc) - 1 : LineBreakAt(p) => Covering(p) = {}

\* the classification of the whole window of the document, from scratch
FromScratch == getDecorationsFor(doc, replaceTabs, viewport.from, viewport.to)

\* the entries of a set, without their order and number
EntriesOf(set) == {set[i] : i \in 1 .. Len(set)}

\* C16: after any update() the set is the classification of the whole window
\* of the document from scratch: every entry sits on a matching character,
\* and a tab entry has the width of the column of its tab
C16_FromScratch ==
  AfterUpdate => decorations = FromScratch

\* the same, the entries taken without their number
C16_SameEntries ==
  AfterUpdate => EntriesOf(decorations) = EntriesOf(FromScratch)

\* calls i and j share a position
CallsMeet(i, j) == calls[i].from < calls[j].to /\ calls[j].from < calls[i].to

\* C17: within one update() no span classified by closeHoles shares a
\* position with a span classified by updateForViewport, also when a character
\* is typed at an edge of the covered range
C17_ClassifiedOnce ==
  AfterUpdate =>
    \A i \in 1 .. Len(calls) : \A j \in 1 .. Len(calls) :
      (calls[i].by = "closeHoles" /\ calls[j].by = "updateForViewport") => ~CallsMeet(i, j)

====
